---- MODULE Spec2Model ----
(***************************************************************************)
(* A model of icinga2_linter.py: the line-oriented scan of lint_file, the  *)
(* helpers is_quotes_balanced and suggest_correction, and the file loop of *)
(* run_linter.  Text is modelled at character level: a line is a sequence  *)
(* of one-character strings, so that split, strip, count, startswith,      *)
(* endswith, substring tests and the two regular expressions are computed  *)
(* as the Python code computes them.                                       *)
(***************************************************************************)
EXTENDS Integers, Sequences, FiniteSets, TLC

VARIABLES
    pc,                          \* position in run_linter / lint_file
    suite,                       \* which family of input lines the directory holds
    nfiles,                      \* number of *.conf files find_config_files yields
    fileNo,                      \* index of the file being linted (its path)
    lines,                       \* lines of the current file (f.readlines())
    i,                           \* number of lines of the current file consumed
    issues,                      \* lint_file's issues list
    brace_stack,                 \* lint_file's brace_stack
    inside_object,
    inside_multiline_structure,
    multiline_structure_type,
    total_issues,                \* run_linter's counter
    printed,                     \* per finished file: its lines and the issues printed
    arg,                         \* argument of a direct call of is_quotes_balanced
    ret                          \* its return value ("none" before the call)

vars == << pc, suite, nfiles, fileNo, lines, i, issues, brace_stack, inside_object,
           inside_multiline_structure, multiline_structure_type, total_issues,
           printed, arg, ret >>

----------------------------------------------------------------------------
(* Bounds of the model.                                                    *)

MaxLines == 3
MaxFiles == 2
MaxQuoteLen == 4

----------------------------------------------------------------------------
(* Characters and Python string primitives.                                *)

Lower == {"a", "b", "c", "d", "e", "f", "g", "h", "i", "j", "k", "l", "m", "n", "o", "p", "q", "r", "s", "t", "u", "v", "w", "x", "y", "z"}
Upper == {"A", "B", "C", "D", "E", "F", "G", "H", "I", "J", "K", "L", "M", "N", "O", "P", "Q", "R", "S", "T", "U", "V", "W", "X", "Y", "Z"}
Digit == {"0", "1", "2", "3", "4", "5", "6", "7", "8", "9"}

DQ == "\""
SQ == "'"
BS == "\\"

Whitespace == {" ", "\t", "\n", "\r"}

IsSpace(c) == c \in Whitespace


RECURSIVE LStrip(_, _)
LStrip(s, chars) ==
    IF s # << >> /\ Head(s) \in chars THEN LStrip(Tail(s), chars) ELSE s

RECURSIVE RStrip(_, _)
RStrip(s, chars) ==
    IF s # << >> /\ s[Len(s)] \in chars THEN RStrip(SubSeq(s, 1, Len(s) - 1), chars) ELSE s

\* str.strip(): leading and trailing whitespace removed
Strip(s) == RStrip(LStrip(s, Whitespace), Whitespace)

\* str.strip('"'): leading and trailing double quotes removed
StripQuotes(s) == RStrip(LStrip(s, {DQ}), {DQ})

\* the last index of the token that starts at k
RECURSIVE TokenEnd(_, _)
TokenEnd(s, k) == IF k = Len(s) \/ IsSpace(s[k + 1]) THEN k ELSE TokenEnd(s, k + 1)

\* str.split(): the maximal runs of non-whitespace characters, in order
RECURSIVE SplitFrom(_, _)
SplitFrom(s, k) ==
    IF k > Len(s) THEN << >>
    ELSE IF IsSpace(s[k]) THEN SplitFrom(s, k + 1)
    ELSE << SubSeq(s, k, TokenEnd(s, k)) >> \o SplitFrom(s, TokenEnd(s, k) + 1)

Split(s) == SplitFrom(s, 1)

\* str.count(c) for a one-character c
Count(s, c) == Cardinality({k \in 1..Len(s) : s[k] = c})

\* sub in s
Contains(s, sub) ==
    \E k \in 0..(Len(s) - Len(sub)) : \A m \in 1..Len(sub) : s[k + m] = sub[m]

StartsWith(s, pre) == Len(pre) <= Len(s) /\ SubSeq(s, 1, Len(pre)) = pre

EndsWith(s, suf) ==
    Len(suf) <= Len(s) /\ SubSeq(s, Len(s) - Len(suf) + 1, Len(s)) = suf

----------------------------------------------------------------------------
(* Module constants.                                                       *)

W_object == <<"o", "b", "j", "e", "c", "t">>
W_apply == <<"a", "p", "p", "l", "y">>
W_template == <<"t", "e", "m", "p", "l", "a", "t", "e">>
W_import == <<"i", "m", "p", "o", "r", "t">>
W_assign == <<"a", "s", "s", "i", "g", "n">>
W_ignore == <<"i", "g", "n", "o", "r", "e">>
W_Dependency == <<"D", "e", "p", "e", "n", "d", "e", "n", "c", "y">>
W_Notification == <<"N", "o", "t", "i", "f", "i", "c", "a", "t", "i", "o", "n">>
W_toHost == <<"t", "o", " ", "H", "o", "s", "t">>
W_toService == <<"t", "o", " ", "S", "e", "r", "v", "i", "c", "e">>

KEYWORDS == {W_object, W_apply, W_template}

VALID_OBJECT_TYPES ==
    { <<"A", "p", "i", "U", "s", "e", "r">>,
      <<"C", "h", "e", "c", "k", "C", "o", "m", "m", "a", "n", "d">>,
      <<"D", "e", "p", "e", "n", "d", "e", "n", "c", "y">>,
      <<"E", "n", "d", "p", "o", "i", "n", "t">>,
      <<"E", "v", "e", "n", "t", "C", "o", "m", "m", "a", "n", "d">>,
      <<"H", "o", "s", "t">>,
      <<"H", "o", "s", "t", "G", "r", "o", "u", "p">>,
      <<"N", "o", "t", "i", "f", "i", "c", "a", "t", "i", "o", "n">>,
      <<"N", "o", "t", "i", "f", "i", "c", "a", "t", "i", "o", "n", "C", "o", "m", "m", "a", "n", "d">>,
      <<"S", "c", "h", "e", "d", "u", "l", "e", "d", "D", "o", "w", "n", "t", "i", "m", "e">>,
      <<"S", "e", "r", "v", "i", "c", "e">>,
      <<"S", "e", "r", "v", "i", "c", "e", "G", "r", "o", "u", "p">>,
      <<"T", "i", "m", "e", "p", "e", "r", "i", "o", "d">>,
      <<"U", "s", "e", "r">>,
      <<"U", "s", "e", "r", "G", "r", "o", "u", "p">>,
      <<"Z", "o", "n", "e">>,
      <<"C", "o", "m", "m", "e", "n", "t">>,
      <<"D", "o", "w", "n", "t", "i", "m", "e">>,
      <<"A", "p", "i", "L", "i", "s", "t", "e", "n", "e", "r">>,
      <<"C", "h", "e", "c", "k", "e", "r", "C", "o", "m", "p", "o", "n", "e", "n", "t">>,
      <<"C", "o", "m", "p", "a", "t", "L", "o", "g", "g", "e", "r">>,
      <<"E", "l", "a", "s", "t", "i", "c", "s", "e", "a", "r", "c", "h", "W", "r", "i", "t", "e", "r">>,
      <<"E", "x", "t", "e", "r", "n", "a", "l", "C", "o", "m", "m", "a", "n", "d", "L", "i", "s", "t", "e", "n", "e", "r">>,
      <<"F", "i", "l", "e", "L", "o", "g", "g", "e", "r">>,
      <<"G", "e", "l", "f", "W", "r", "i", "t", "e", "r">>,
      <<"G", "r", "a", "p", "h", "i", "t", "e", "W", "r", "i", "t", "e", "r">>,
      <<"I", "c", "i", "n", "g", "a", "A", "p", "p", "l", "i", "c", "a", "t", "i", "o", "n">>,
      <<"I", "c", "i", "n", "g", "a", "D", "B">>,
      <<"I", "d", "o", "M", "y", "S", "q", "l", "C", "o", "n", "n", "e", "c", "t", "i", "o", "n">>,
      <<"I", "d", "o", "P", "g", "s", "q", "l", "C", "o", "n", "n", "e", "c", "t", "i", "o", "n">>,
      <<"I", "n", "f", "l", "u", "x", "d", "b", "W", "r", "i", "t", "e", "r">>,
      <<"I", "n", "f", "l", "u", "x", "d", "b", "2", "W", "r", "i", "t", "e", "r">>,
      <<"J", "o", "u", "r", "n", "a", "l", "d", "L", "o", "g", "g", "e", "r">>,
      <<"L", "i", "v", "e", "S", "t", "a", "t", "u", "s", "L", "i", "s", "t", "e", "n", "e", "r">>,
      <<"N", "o", "t", "i", "f", "i", "c", "a", "t", "i", "o", "n", "C", "o", "m", "p", "o", "n", "e", "n", "t">>,
      <<"O", "p", "e", "n", "T", "s", "d", "b", "W", "r", "i", "t", "e", "r">>,
      <<"P", "e", "r", "f", "d", "a", "t", "a", "W", "r", "i", "t", "e", "r">>,
      <<"S", "y", "s", "l", "o", "g", "L", "o", "g", "g", "e", "r">>,
      <<"W", "i", "n", "d", "o", "w", "s", "E", "v", "e", "n", "t", "L", "o", "g", "L", "o", "g", "g", "e", "r">> }

SPECIAL_KEYWORDS == {W_import, W_assign, W_ignore}

----------------------------------------------------------------------------
(* is_quotes_balanced: one left-to-right pass with the flags in_single,    *)
(* in_double and escaped.                                                  *)

\* a quote toggles its flag even inside a run of the other kind
QuoteStep_NoNesting(st, char) ==
    IF st.escaped THEN [st EXCEPT !.escaped = FALSE]
    ELSE IF char = BS THEN [st EXCEPT !.escaped = TRUE]
    ELSE IF char = DQ THEN [st EXCEPT !.in_double = ~st.in_double]
    ELSE IF char = SQ THEN [st EXCEPT !.in_single = ~st.in_single]
    ELSE st

QuoteStep(st, char) ==
    IF st.escaped THEN [st EXCEPT !.escaped = FALSE]
    ELSE IF char = BS THEN [st EXCEPT !.escaped = TRUE]
    ELSE IF char = DQ /\ ~st.in_single THEN [st EXCEPT !.in_double = ~st.in_double]
    ELSE IF char = SQ /\ ~st.in_double THEN [st EXCEPT !.in_single = ~st.in_single]
    ELSE st

RECURSIVE QuoteScan(_, _, _)
QuoteScan(line, k, st) ==
    IF k > Len(line) THEN st ELSE QuoteScan(line, k + 1, QuoteStep(st, line[k]))

is_quotes_balanced(line) ==
    LET st == QuoteScan(line, 1, [in_single |-> FALSE, in_double |-> FALSE, escaped |-> FALSE])
    IN  ~st.in_single /\ ~st.in_double

----------------------------------------------------------------------------
(* The two regular expressions of lint_file.                               *)

IdentStart == Lower \cup Upper \cup {"_"}

IdentChar == Lower \cup Upper \cup Digit \cup {"_"}

IsIdent(t) ==
    /\ Len(t) >= 1
    /\ t[1] \in IdentStart
    /\ \A k \in 2..Len(t) : t[k] \in IdentChar

IsOperator(t) ==
    t \in { <<"=">>, <<"+", "=">>, <<"-", "=">>, <<"*", "=">>, <<"/", "=">> }

AllSpace(s, a, b) == \A k \in a..b : IsSpace(s[k])

\* re.search(r'\s*(=|\+=|-=|\*=|/=)\s*', stripped)
HasOperator(s) ==
    \E k \in 1..Len(s) : \E n \in 1..2 :
        k + n - 1 <= Len(s) /\ IsOperator(SubSeq(s, k, k + n - 1))

\* the same pattern without its end anchor: a name and an operator, anything after
AttrAssign_NoEndAnchor(s) ==
    \E k \in 1..Len(s) :
        /\ IsIdent(SubSeq(s, 1, k))
        /\ \E j \in k..Len(s) :
              /\ AllSpace(s, k + 1, j)
              /\ \E n \in 1..2 :
                    /\ j + n <= Len(s)
                    /\ IsOperator(SubSeq(s, j + 1, j + n))

\* re.match(r'^([a-zA-Z_][a-zA-Z0-9_]*)\s*(=|\+=|-=|\*=|/=)\s*$', stripped)
AttrAssign(s) ==
    \E k \in 1..Len(s) :
        /\ IsIdent(SubSeq(s, 1, k))
        /\ \E j \in k..Len(s) :
              /\ AllSpace(s, k + 1, j)
              /\ \E n \in 1..2 :
                    /\ j + n <= Len(s)
                    /\ IsOperator(SubSeq(s, j + 1, j + n))
                    /\ AllSpace(s, j + n + 1, Len(s))

----------------------------------------------------------------------------
(* suggest_correction: difflib.get_close_matches(word, valid_words, n=1,   *)
(* cutoff=0.8).  SequenceMatcher.ratio() is 2*M/T, M the total size of the *)
(* matching blocks found by repeatedly taking the longest common block     *)
(* (earliest in a, then earliest in b) and recursing to its left and       *)
(* right.                                                                  *)

CutoffTenths == 8

Min2(x, y) == IF x <= y THEN x ELSE y

\* the length of the longest run a[p..] = b[q..] inside a[..ahi], b[..bhi]
RECURSIVE RunLen(_, _, _, _, _, _)
RunLen(a, b, p, q, ahi, bhi) ==
    IF p > ahi \/ q > bhi \/ a[p] # b[q] THEN 0
    ELSE 1 + RunLen(a, b, p + 1, q + 1, ahi, bhi)

\* the non-empty maximal common runs <<p, q, size>> of a[alo..ahi] and b[blo..bhi]
CommonBlocks(a, b, alo, ahi, blo, bhi) ==
    { blk \in { <<pq[1], pq[2], RunLen(a, b, pq[1], pq[2], ahi, bhi)>> :
                    pq \in (alo..ahi) \X (blo..bhi) } : blk[3] > 0 }

\* find_longest_match: the longest block, the earliest in a, then the earliest in b
FindLongestMatch(blocks) ==
    CHOOSE x \in blocks : \A y \in blocks :
        \/ x[3] > y[3]
        \/ x[3] = y[3] /\ x[1] < y[1]
        \/ x[3] = y[3] /\ x[1] = y[1] /\ x[2] <= y[2]

RECURSIVE MatchCount(_, _, _, _, _, _)
MatchCount(a, b, alo, ahi, blo, bhi) ==
    IF alo > ahi \/ blo > bhi THEN 0
    ELSE LET blocks == CommonBlocks(a, b, alo, ahi, blo, bhi)
             x      == FindLongestMatch(blocks)
         IN  IF blocks = {} THEN 0
             ELSE x[3] + MatchCount(a, b, alo, x[1] - 1, blo, x[2] - 1)
                       + MatchCount(a, b, x[1] + x[3], ahi, x[2] + x[3], bhi)

\* ratio(a, b) >= cutoff, in integers: 2*M/T >= CutoffTenths/10
RatioAtLeastCutoff(a, b) ==
    IF Len(a) + Len(b) = 0 THEN TRUE
    ELSE 2 * 10 * MatchCount(a, b, 1, Len(a), 1, Len(b)) >= CutoffTenths * (Len(a) + Len(b))

\* the list `suggestions`: the best-scoring close match, or empty.  No word is
\* within the cutoff of two of the three keywords, so the choice among the
\* best is unique for KEYWORDS.
suggest_correction(word, valid_words) ==
    LET close == {x \in valid_words : RatioAtLeastCutoff(x, word)}
    IN  IF close = {} THEN << >>
        ELSE << CHOOSE x \in close : \A y \in close :
                    2 * MatchCount(x, word, 1, Len(x), 1, Len(word)) * (Len(y) + Len(word))
                      >= 2 * MatchCount(y, word, 1, Len(y), 1, Len(word)) * (Len(x) + Len(word)) >>

----------------------------------------------------------------------------
(* lint_file: diagnostics and the per-line scan.                           *)

NoArg == << >>

\* one formatted issue "<path>:<line>: <SEVERITY> <message>"
Issue(path, lineno, sev, msg, detail) ==
    [file |-> path, line |-> lineno, sev |-> sev, msg |-> msg, arg |-> detail]

M_InvalidType     == "is not a valid object type"
M_ApplyTarget     == "must include 'to Host' or 'to Service'"
M_HeaderQuotes    == "unbalanced quotes in object definition"
M_DidYouMean      == "is not a valid keyword. Did you mean"
M_NotKeyword      == "is not a valid keyword"
M_MismatchSquare  == "mismatched bracket: expected ']'"
M_MismatchCurly   == "mismatched bracket: expected ']' but found '}'"
M_UnclosedArray   == "unclosed array structure"
M_UnclosedDict    == "unclosed dictionary structure"
M_StructQuotes    == "unbalanced quotes in multiline structure"
M_ImportOperator  == "'import' must not be used with an operator"
M_NoValue         == "assigned with operator but no value"
M_InvalidAttr     == "invalid attribute syntax"
M_ParseFailed     == "parsing attribute failed"
M_Quotes          == "unbalanced quotes"
M_UnclosedBracket == "unclosed bracket"

\* the scan state lint_file carries from line to line
ScanInit ==
    [issues |-> << >>, brace_stack |-> << >>, inside_object |-> FALSE,
     ims |-> FALSE, mst |-> "None"]

Frame(ch, lineno) == [ch |-> ch, line |-> lineno]

\* n times brace_stack.append((ch, lineno))
RECURSIVE PushN(_, _, _, _)
PushN(stack, ch, lineno, n) ==
    IF n <= 0 THEN stack ELSE PushN(Append(stack, Frame(ch, lineno)), ch, lineno, n - 1)

Pop(stack) == SubSeq(stack, 1, Len(stack) - 1)

Top(stack) == stack[Len(stack)]

\* the declared type compared without stripping its quotes
HeaderTypeIssues_NoStrip(path, lineno, stripped, tokens) ==
    IF Len(tokens) > 1
    THEN LET object_type == tokens[2]
         IN  (IF object_type \notin VALID_OBJECT_TYPES
              THEN << Issue(path, lineno, "ERROR", M_InvalidType, object_type) >>
              ELSE << >>)
             \o
             (IF /\ tokens[1] = W_apply
                 /\ object_type \in {W_Dependency, W_Notification}
                 /\ ~(Contains(stripped, W_toHost) \/ Contains(stripped, W_toService))
              THEN << Issue(path, lineno, "ERROR", M_ApplyTarget, object_type) >>
              ELSE << >>)
    ELSE << >>

\* the apply-target rule applied to the header of every keyword
HeaderTypeIssues_AnyKeyword(path, lineno, stripped, tokens) ==
    IF Len(tokens) > 1
    THEN LET object_type == StripQuotes(tokens[2])
         IN  (IF object_type \notin VALID_OBJECT_TYPES
              THEN << Issue(path, lineno, "ERROR", M_InvalidType, object_type) >>
              ELSE << >>)
             \o
             (IF /\ object_type \in {W_Dependency, W_Notification}
                 /\ ~(Contains(stripped, W_toHost) \/ Contains(stripped, W_toService))
              THEN << Issue(path, lineno, "ERROR", M_ApplyTarget, object_type) >>
              ELSE << >>)
    ELSE << >>

\* lines 80-86: the declared type and the apply-target rule
HeaderTypeIssues(path, lineno, stripped, tokens) ==
    IF Len(tokens) > 1
    THEN LET object_type == StripQuotes(tokens[2])
         IN  (IF object_type \notin VALID_OBJECT_TYPES
              THEN << Issue(path, lineno, "ERROR", M_InvalidType, object_type) >>
              ELSE << >>)
             \o
             (IF /\ tokens[1] = W_apply
                 /\ object_type \in {W_Dependency, W_Notification}
                 /\ ~(Contains(stripped, W_toHost) \/ Contains(stripped, W_toService))
              THEN << Issue(path, lineno, "ERROR", M_ApplyTarget, object_type) >>
              ELSE << >>)
    ELSE << >>

\* lines 87-88
HeaderQuoteIssues(path, lineno, stripped) ==
    IF ~is_quotes_balanced(stripped)
    THEN << Issue(path, lineno, "ERROR", M_HeaderQuotes, NoArg) >>
    ELSE << >>

\* lines 90-94: the header's braces, one frame per "{" of the line
HeaderPush(stack, lineno, stripped) ==
    PushN(Append(stack, Frame("{", lineno)), "{", lineno, Count(stripped, "{") - 1)

\* lines 97-101: reached when the keyword line holds no "{"
HeaderNoBraceIssues(path, lineno, first_token) ==
    LET suggestion == suggest_correction(first_token, KEYWORDS)
    IN  IF suggestion # << >>
        THEN << Issue(path, lineno, "WARN", M_DidYouMean, suggestion[1]) >>
        ELSE << Issue(path, lineno, "ERROR", M_NotKeyword, first_token) >>

\* lines 79-102: a top-level line whose first token is a keyword
HeaderLine(st, path, lineno, stripped, tokens) ==
    LET found == HeaderTypeIssues(path, lineno, stripped, tokens)
                    \o HeaderQuoteIssues(path, lineno, stripped)
    IN  IF Contains(stripped, <<"{">>)
        THEN [st EXCEPT !.issues = @ \o found,
                        !.inside_object = TRUE,
                        !.brace_stack = HeaderPush(@, lineno, stripped)]
        ELSE [st EXCEPT !.issues = @ \o found
                                     \o HeaderNoBraceIssues(path, lineno, tokens[1])]

\* lines 113-116: every "[" of the line is pushed; the line is then in an array
OpenSquare(st, lineno, stripped) ==
    LET open_square == Count(stripped, "[")
    IN  IF open_square = 0 THEN st
        ELSE [st EXCEPT !.brace_stack = PushN(@, "[", lineno, open_square),
                        !.ims = TRUE, !.mst = "array"]

\* lines 117-121: every "{" of the line is pushed
OpenCurly(st, lineno, stripped) ==
    LET open_curly == Count(stripped, "{")
    IN  IF open_curly = 0 THEN st
        ELSE IF st.inside_object
             THEN [st EXCEPT !.brace_stack = PushN(@, "{", lineno, open_curly)]
             ELSE [st EXCEPT !.brace_stack = PushN(@, "{", lineno, open_curly),
                             !.ims = TRUE, !.mst = "dict"]

\* lines 109-110: parentheses are counted and the counts are not used
OpenParen(st, lineno, stripped) ==
    LET open_paren  == Count(stripped, "(")
        close_paren == Count(stripped, ")")
    IN  st

\* lines 124-128: one "]"
CloseSquareOnce(st, path, lineno) ==
    IF st.brace_stack # << >> /\ Top(st.brace_stack).ch = "["
    THEN [st EXCEPT !.brace_stack = Pop(@)]
    ELSE [st EXCEPT !.issues = Append(@, Issue(path, lineno, "ERROR", M_MismatchSquare, NoArg))]

\* one "}" that removes the top frame whatever its kind
CloseCurlyOnce_PopAnyway(st, path, lineno) ==
    LET popped ==
            IF st.brace_stack # << >>
            THEN IF Top(st.brace_stack).ch = "{"
                 THEN [st EXCEPT !.brace_stack = Pop(@)]
                 ELSE [st EXCEPT !.brace_stack = Pop(@),
                                 !.issues =
                          Append(@, Issue(path, lineno, "ERROR", M_MismatchCurly, NoArg))]
            ELSE st
    IN  IF popped.brace_stack = << >> /\ popped.inside_object
        THEN [popped EXCEPT !.inside_object = FALSE, !.ims = FALSE, !.mst = "None"]
        ELSE popped

\* one "}" that never ends the object
CloseCurlyOnce_KeepObject(st, path, lineno) ==
    IF st.brace_stack # << >>
    THEN IF Top(st.brace_stack).ch = "{"
         THEN [st EXCEPT !.brace_stack = Pop(@)]
         ELSE [st EXCEPT !.issues =
                  Append(@, Issue(path, lineno, "ERROR", M_MismatchCurly, NoArg))]
    ELSE st

\* lines 131-141: one "}"
CloseCurlyOnce(st, path, lineno) ==
    LET popped ==
            IF st.brace_stack # << >>
            THEN IF Top(st.brace_stack).ch = "{"
                 THEN [st EXCEPT !.brace_stack = Pop(@)]
                 ELSE [st EXCEPT !.issues =
                          Append(@, Issue(path, lineno, "ERROR", M_MismatchCurly, NoArg))]
            ELSE st
    IN  IF popped.brace_stack = << >> /\ popped.inside_object
        THEN [popped EXCEPT !.inside_object = FALSE, !.ims = FALSE, !.mst = "None"]
        ELSE popped

\* lines 123-128: for _ in range(close_square)
RECURSIVE CloseSquare(_, _, _, _)
CloseSquare(st, path, lineno, n) ==
    IF n = 0 THEN st ELSE CloseSquare(CloseSquareOnce(st, path, lineno), path, lineno, n - 1)

\* lines 130-141: for _ in range(close_curly)
RECURSIVE CloseCurly(_, _, _, _)
CloseCurly(st, path, lineno, n) ==
    IF n = 0 THEN st ELSE CloseCurly(CloseCurlyOnce(st, path, lineno), path, lineno, n - 1)

\* lines 105-141: all openers of the line first, then all "]", then all "}"
TrackBrackets(st, path, lineno, stripped) ==
    LET s1 == OpenSquare(st, lineno, stripped)
        s2 == OpenCurly(s1, lineno, stripped)
        s3 == OpenParen(s2, lineno, stripped)
        s4 == CloseSquare(s3, path, lineno, Count(stripped, "]"))
    IN  CloseCurly(s4, path, lineno, Count(stripped, "}"))

\* lines 144-147
StructureClosedIssues(st, path, lineno) ==
    IF st.ims /\ st.mst = "array" /\ st.brace_stack = << >>
    THEN << Issue(path, lineno, "ERROR", M_UnclosedArray, NoArg) >>
    ELSE IF st.ims /\ st.mst = "dict" /\ st.brace_stack = << >>
    THEN << Issue(path, lineno, "ERROR", M_UnclosedDict, NoArg) >>
    ELSE << >>

\* lines 150-152
StructureQuoteIssues(st, path, lineno, stripped) ==
    IF st.ims /\ ~is_quotes_balanced(stripped)
    THEN << Issue(path, lineno, "ERROR", M_StructQuotes, NoArg) >>
    ELSE << >>

\* lines 165-168: the shapes accepted as a fragment of a multi-line literal
ContinuationShape(st, stripped) ==
    \/ /\ st.mst = "array"
       /\ \/ EndsWith(stripped, <<",">>)
          \/ EndsWith(stripped, <<"]">>)
          \/ StartsWith(stripped, <<DQ>>)
    \/ /\ st.mst = "dict"
       /\ \/ EndsWith(stripped, <<",">>)
          \/ EndsWith(stripped, <<"}">>)

\* lines 155-184.  The result is the issues found and whether the line ended
\* with `continue` (which skips the final quote check of lines 187-188).
\* parser_raises is the outcome of the external parser.parse call.
ValidateAttributes(st, path, lineno, stripped, parser_raises) ==
    LET tokens == Split(stripped)
        go(found) == [found |-> found, continued |-> FALSE]
        skip(found) == [found |-> found, continued |-> TRUE]
        quotes == IF st.ims /\ ~is_quotes_balanced(stripped)
                  THEN << Issue(path, lineno, "ERROR", M_StructQuotes, NoArg) >>
                  ELSE << >>
    IN  IF ~(st.inside_object \/ st.ims) \/ tokens = << >> THEN go(<< >>)
        ELSE IF tokens[1] = W_import /\ HasOperator(stripped)
        THEN skip(<< Issue(path, lineno, "ERROR", M_ImportOperator, NoArg) >>)
        ELSE IF tokens[1] \in SPECIAL_KEYWORDS THEN go(<< >>)
        ELSE IF st.ims /\ ContinuationShape(st, stripped) THEN skip(<< >>)
        ELSE IF AttrAssign(stripped)
        THEN skip(quotes \o << Issue(path, lineno, "ERROR", M_NoValue, NoArg) >>)
        ELSE IF ~HasOperator(stripped) /\ ~st.ims
        THEN go(quotes \o << Issue(path, lineno, "ERROR", M_InvalidAttr, stripped) >>)
        ELSE IF parser_raises
        THEN go(quotes \o << Issue(path, lineno, "ERROR", M_ParseFailed, NoArg) >>)
        ELSE go(quotes)

\* lines 187-188
FinalQuoteIssues(path, lineno, stripped) ==
    IF ~is_quotes_balanced(stripped)
    THEN << Issue(path, lineno, "ERROR", M_Quotes, NoArg) >>
    ELSE << >>

\* lines 104-188: a line that is not handled as a keyword line
BodyLine(st, path, lineno, stripped, parser_raises) ==
    LET s1 == TrackBrackets(st, path, lineno, stripped)
        s2 == [s1 EXCEPT !.issues = @ \o StructureClosedIssues(s1, path, lineno)
                                      \o StructureQuoteIssues(s1, path, lineno, stripped)]
        v  == ValidateAttributes(s2, path, lineno, stripped, parser_raises)
    IN  [s2 EXCEPT !.issues = @ \o v.found
                       \o (IF v.continued THEN << >>
                           ELSE FinalQuoteIssues(path, lineno, stripped))]

\* lines 71-72: blank lines and "//" comments are skipped
IsSkipped(stripped) == stripped = << >> \/ StartsWith(stripped, <<"/", "/">>)

\* lines 75-79: the line is handled as a declaration header
IsKeywordLine(st, stripped) ==
    /\ ~st.inside_object
    /\ ~st.ims
    /\ Split(stripped) # << >>
    /\ Split(stripped)[1] \in KEYWORDS

\* lines 66-188: one iteration of the loop over the file's lines
ScanStep(st, path, lineno, line, parser_raises) ==
    LET stripped == Strip(line)
    IN  IF IsSkipped(stripped) THEN st
        ELSE IF IsKeywordLine(st, stripped)
        THEN HeaderLine(st, path, lineno, stripped, Split(stripped))
        ELSE BodyLine(st, path, lineno, stripped, parser_raises)

\* the frames reported from the top of the stack down
UnclosedIssues_TopFirst(path, stack) ==
    [k \in 1..Len(stack) |->
        Issue(path, stack[Len(stack) + 1 - k].line, "ERROR", M_UnclosedBracket,
              << stack[Len(stack) + 1 - k].ch >>)]

\* lines 190-192: one issue per frame left on the stack, bottom first
RECURSIVE UnclosedIssues(_, _)
UnclosedIssues(path, stack) ==
    IF stack = << >> THEN << >>
    ELSE << Issue(path, Head(stack).line, "ERROR", M_UnclosedBracket, << Head(stack).ch >>) >>
            \o UnclosedIssues(path, Tail(stack))

----------------------------------------------------------------------------
(* Input lines.  Each family holds the lines the files of one directory    *)
(* are made of; the comment above a line is its text.                      *)

\* object Host "a" {
B_Header == <<"o", "b", "j", "e", "c", "t", " ", "H", "o", "s", "t", " ", "\"", "a", "\"", " ", "{">>
\* object Host "a" { }
B_HeaderClosed == <<"o", "b", "j", "e", "c", "t", " ", "H", "o", "s", "t", " ", "\"", "a", "\"", " ", "{", " ", "}">>
\*   x = { a = [ 1 ] }
B_Nested == <<" ", " ", "x", " ", "=", " ", "{", " ", "a", " ", "=", " ", "[", " ", "1", " ", "]", " ", "}">>
\* }
B_CloseCurly == <<"}">>
\* x = [
B_OpenSquare == <<"x", " ", "=", " ", "[">>
\* ]
B_CloseSquare == <<"]">>
\* x = (
B_OpenParen == <<"x", " ", "=", " ", "(">>
\* )
B_CloseParen == <<")">>

BracketLines == { B_Header, B_HeaderClosed, B_Nested, B_CloseCurly, B_OpenSquare, B_CloseSquare, B_OpenParen, B_CloseParen }

\* object Host "srv1"
H_NoBrace == <<"o", "b", "j", "e", "c", "t", " ", "H", "o", "s", "t", " ", "\"", "s", "r", "v", "1", "\"">>
\* {
H_Brace == <<"{">>
\* object Potato "a" {
H_Potato == <<"o", "b", "j", "e", "c", "t", " ", "P", "o", "t", "a", "t", "o", " ", "\"", "a", "\"", " ", "{">>
\* }
H_Close == <<"}">>
\* object Host "a" {
H_Host == <<"o", "b", "j", "e", "c", "t", " ", "H", "o", "s", "t", " ", "\"", "a", "\"", " ", "{">>
\* template "Host" "t" {
H_Template == <<"t", "e", "m", "p", "l", "a", "t", "e", " ", "\"", "H", "o", "s", "t", "\"", " ", "\"", "t", "\"", " ", "{">>
\*   vars.x = 1
H_Attr == <<" ", " ", "v", "a", "r", "s", ".", "x", " ", "=", " ", "1">>
\* object
H_Bare == <<"o", "b", "j", "e", "c", "t">>

HeaderLines == { H_NoBrace, H_Brace, H_Potato, H_Close, H_Host, H_Template, H_Attr, H_Bare }

\* object Host "a" {
A_Header == <<"o", "b", "j", "e", "c", "t", " ", "H", "o", "s", "t", " ", "\"", "a", "\"", " ", "{">>
\* apply Notification "n" {
A_ApplyNotif == <<"a", "p", "p", "l", "y", " ", "N", "o", "t", "i", "f", "i", "c", "a", "t", "i", "o", "n", " ", "\"", "n", "\"", " ", "{">>
\* apply Notification "n" to Service {
A_ApplyNotifTo == <<"a", "p", "p", "l", "y", " ", "N", "o", "t", "i", "f", "i", "c", "a", "t", "i", "o", "n", " ", "\"", "n", "\"", " ", "t", "o", " ", "S", "e", "r", "v", "i", "c", "e", " ", "{">>
\*   vars.x = 1
A_Assign == <<" ", " ", "v", "a", "r", "s", ".", "x", " ", "=", " ", "1">>
\* y += "a b"
A_PlusAssign == <<"y", " ", "+", "=", " ", "\"", "a", " ", "b", "\"">>
\* import = 1
A_ImportAssign == <<"i", "m", "p", "o", "r", "t", " ", "=", " ", "1">>
\* z = "a
A_OpenQuote == <<"z", " ", "=", " ", "\"", "a">>
\* }
A_Close == <<"}">>

BodyLines == { A_Header, A_ApplyNotif, A_ApplyNotifTo, A_Assign, A_PlusAssign, A_ImportAssign, A_OpenQuote, A_Close }

\* /*
K_Open == <<"/", "*">>
\* */
K_Close == <<"*", "/">>
\* /* c */
K_OneLine == <<"/", "*", " ", "c", " ", "*", "/">>
\* {
K_Brace == <<"{">>
\* x = "a
K_Quote == <<"x", " ", "=", " ", "\"", "a">>
\* // {
K_LineComment == <<"/", "/", " ", "{">>
\* object Host "a" {
K_Header == <<"o", "b", "j", "e", "c", "t", " ", "H", "o", "s", "t", " ", "\"", "a", "\"", " ", "{">>
\* }
K_CloseCurly == <<"}">>
\*  * ] text
K_Star == <<" ", "*", " ", "]", " ", "t", "e", "x", "t">>

CommentLines == { K_Open, K_Close, K_OneLine, K_Brace, K_Quote, K_LineComment, K_Header, K_CloseCurly, K_Star }

\* object Host "a" {
R_HostA == <<"o", "b", "j", "e", "c", "t", " ", "H", "o", "s", "t", " ", "\"", "a", "\"", " ", "{">>
\* }
R_Close == <<"}">>
\* object Host "b" {
R_HostB == <<"o", "b", "j", "e", "c", "t", " ", "H", "o", "s", "t", " ", "\"", "b", "\"", " ", "{">>

RunLines == { R_HostA, R_Close, R_HostB }

\* objekt Host "a" {
Y_Objekt == <<"o", "b", "j", "e", "k", "t", " ", "H", "o", "s", "t", " ", "\"", "a", "\"", " ", "{">>
\* foo
Y_Foo == <<"f", "o", "o">>
\* object Host "a" {
Y_Object == <<"o", "b", "j", "e", "c", "t", " ", "H", "o", "s", "t", " ", "\"", "a", "\"", " ", "{">>
\* template Host "t"
Y_NoBrace == <<"t", "e", "m", "p", "l", "a", "t", "e", " ", "H", "o", "s", "t", " ", "\"", "t", "\"">>
\* }
Y_Close == <<"}">>
\* aply Service "s" {
Y_Aply == <<"a", "p", "l", "y", " ", "S", "e", "r", "v", "i", "c", "e", " ", "\"", "s", "\"", " ", "{">>

KeywordLines == { Y_Objekt, Y_Foo, Y_Object, Y_NoBrace, Y_Close, Y_Aply }

\* object Host "a" {
T_Header == <<"o", "b", "j", "e", "c", "t", " ", "H", "o", "s", "t", " ", "\"", "a", "\"", " ", "{">>
\* import = "a
T_ImportQuote == <<"i", "m", "p", "o", "r", "t", " ", "=", " ", "\"", "a">>
\* x = [ 1 ]
T_Array == <<"x", " ", "=", " ", "[", " ", "1", " ", "]">>
\* foo
T_Word == <<"f", "o", "o">>
\* }
T_Close == <<"}">>
\* x = {
T_OpenDict == <<"x", " ", "=", " ", "{">>
\* [ ]
T_EmptyArray == <<"[", " ", "]">>
\* y = [
T_OpenArray == <<"y", " ", "=", " ", "[">>
\* x =
T_NoValue == <<"x", " ", "=">>
\* z = "a
T_OpenQuote == <<"z", " ", "=", " ", "\"", "a">>

LiteralLines == { T_Header, T_ImportQuote, T_Array, T_Word, T_Close, T_OpenDict, T_EmptyArray, T_OpenArray, T_NoValue, T_OpenQuote }

\* apply Dependency "d" {
P_Dep == <<"a", "p", "p", "l", "y", " ", "D", "e", "p", "e", "n", "d", "e", "n", "c", "y", " ", "\"", "d", "\"", " ", "{">>
\* apply Dependency "d" to Host {
P_DepToHost == <<"a", "p", "p", "l", "y", " ", "D", "e", "p", "e", "n", "d", "e", "n", "c", "y", " ", "\"", "d", "\"", " ", "t", "o", " ", "H", "o", "s", "t", " ", "{">>
\* apply "Notification" "n" to Service {
P_NotifToService == <<"a", "p", "p", "l", "y", " ", "\"", "N", "o", "t", "i", "f", "i", "c", "a", "t", "i", "o", "n", "\"", " ", "\"", "n", "\"", " ", "t", "o", " ", "S", "e", "r", "v", "i", "c", "e", " ", "{">>
\* apply "Notification" "n"
P_Notif == <<"a", "p", "p", "l", "y", " ", "\"", "N", "o", "t", "i", "f", "i", "c", "a", "t", "i", "o", "n", "\"", " ", "\"", "n", "\"">>
\* apply Service "s" {
P_Service == <<"a", "p", "p", "l", "y", " ", "S", "e", "r", "v", "i", "c", "e", " ", "\"", "s", "\"", " ", "{">>
\* object Dependency "d" {
P_ObjectDep == <<"o", "b", "j", "e", "c", "t", " ", "D", "e", "p", "e", "n", "d", "e", "n", "c", "y", " ", "\"", "d", "\"", " ", "{">>
\* template Notification "n" {
P_TemplateNotif == <<"t", "e", "m", "p", "l", "a", "t", "e", " ", "N", "o", "t", "i", "f", "i", "c", "a", "t", "i", "o", "n", " ", "\"", "n", "\"", " ", "{">>
\* }
P_Close == <<"}">>

ApplyLines == { P_Dep, P_DepToHost, P_NotifToService, P_Notif, P_Service, P_ObjectDep, P_TemplateNotif, P_Close }

\* object Host "a" {
N_Header == <<"o", "b", "j", "e", "c", "t", " ", "H", "o", "s", "t", " ", "\"", "a", "\"", " ", "{">>
\*   vars.x = 1
N_Attr == <<" ", " ", "v", "a", "r", "s", ".", "x", " ", "=", " ", "1">>

RerunLines == { N_Header, N_Attr }

MaxRunLines == 2

Pool(s) ==
    CASE s = "brackets" -> BracketLines
      [] s = "header"   -> HeaderLines
      [] s = "body"     -> BodyLines
      [] s = "comment"  -> CommentLines
      [] s = "run"      -> RunLines
      [] s = "keyword"  -> KeywordLines
      [] s = "literal"  -> LiteralLines
      [] s = "apply"    -> ApplyLines
      [] s = "rerun"    -> RerunLines

MaxLinesOf(s) == IF s \in {"run", "rerun"} THEN MaxRunLines ELSE MaxLines

\* the possible contents of one file of the directory
Files(s) == UNION { [1..n -> Pool(s)] : n \in 0..MaxLinesOf(s) }

\* the lines is_quotes_balanced is called with directly
QuoteAlphabet == {DQ, SQ, BS, "a"}

QuoteLines == UNION { [1..n -> QuoteAlphabet] : n \in 0..MaxQuoteLen }

----------------------------------------------------------------------------
(* State machine: run_linter looping over the files, lint_file looping     *)
(* over the lines of one file.                                             *)

scan == [issues |-> issues, brace_stack |-> brace_stack, inside_object |-> inside_object,
         ims |-> inside_multiline_structure, mst |-> multiline_structure_type]

InitLint(s, nf) ==
    /\ pc = "start"
    /\ suite = s
    /\ nfiles \in 0..nf
    /\ fileNo = 0
    /\ lines = << >>
    /\ i = 0
    /\ issues = << >>
    /\ brace_stack = << >>
    /\ inside_object = FALSE
    /\ inside_multiline_structure = FALSE
    /\ multiline_structure_type = "None"
    /\ total_issues = 0
    /\ printed = << >>
    /\ arg = << >>
    /\ ret = "none"

InitBrackets == InitLint("brackets", 1)
InitHeader   == InitLint("header", 1)
InitBody     == InitLint("body", 1)
InitComment  == InitLint("comment", 1)
InitRun      == InitLint("run", MaxFiles)
InitKeyword  == InitLint("keyword", 1)
InitLiteral  == InitLint("literal", 1)
InitApply    == InitLint("apply", 1)
InitRerun    == InitLint("rerun", MaxFiles)

InitQuotes ==
    /\ pc = "call"
    /\ suite = "quotes"
    /\ nfiles = 0
    /\ fileNo = 0
    /\ lines = << >>
    /\ i = 0
    /\ issues = << >>
    /\ brace_stack = << >>
    /\ inside_object = FALSE
    /\ inside_multiline_structure = FALSE
    /\ multiline_structure_type = "None"
    /\ total_issues = 0
    /\ printed = << >>
    /\ arg \in QuoteLines
    /\ ret = "none"

\* run_linter, lines 203-207: the path is a directory or the run exits with 1
RunLinterStart ==
    /\ pc = "start"
    /\ \E isdir \in BOOLEAN :
          pc' = IF isdir THEN "files" ELSE "exit1"
    /\ total_issues' = 0
    /\ UNCHANGED << suite, nfiles, fileNo, lines, i, issues, brace_stack, inside_object,
                    inside_multiline_structure, multiline_structure_type, printed,
                    arg, ret >>

\* lint_file with its bracket stack and flags kept from the file before
LintFileOpen_NoReset ==
    /\ pc = "files"
    /\ fileNo < nfiles
    /\ fileNo' = fileNo + 1
    /\ \E readable \in BOOLEAN :
          IF readable
          THEN /\ pc' = "scan"
               /\ lines' \in Files(suite)
          ELSE /\ pc' = "raised"
               /\ lines' = << >>
    /\ i' = 0
    /\ issues' = ScanInit.issues
    /\ UNCHANGED << brace_stack, inside_object, inside_multiline_structure,
                    multiline_structure_type >>
    /\ UNCHANGED << suite, nfiles, total_issues, printed, arg, ret >>

\* run_linter line 209 calling lint_file, lines 51-64: the file is opened and
\* read; an OSError of open() is caught nowhere and ends the run
LintFileOpen ==
    /\ pc = "files"
    /\ fileNo < nfiles
    /\ fileNo' = fileNo + 1
    /\ \E readable \in BOOLEAN :
          IF readable
          THEN /\ pc' = "scan"
               /\ lines' \in Files(suite)
          ELSE /\ pc' = "raised"
               /\ lines' = << >>
    /\ i' = 0
    /\ issues' = ScanInit.issues
    /\ brace_stack' = ScanInit.brace_stack
    /\ inside_object' = ScanInit.inside_object
    /\ inside_multiline_structure' = ScanInit.ims
    /\ multiline_structure_type' = ScanInit.mst
    /\ UNCHANGED << suite, nfiles, total_issues, printed, arg, ret >>

\* lint_file lines 66-188: the next line of the file
ScanLine ==
    /\ pc = "scan"
    /\ i < Len(lines)
    /\ \E parser_raises \in BOOLEAN :
          LET st == ScanStep(scan, fileNo, i + 1, lines[i + 1], parser_raises)
          IN  /\ issues' = st.issues
              /\ brace_stack' = st.brace_stack
              /\ inside_object' = st.inside_object
              /\ inside_multiline_structure' = st.ims
              /\ multiline_structure_type' = st.mst
    /\ i' = i + 1
    /\ UNCHANGED << pc, suite, nfiles, fileNo, lines, total_issues, printed, arg, ret >>

\* lint_file lines 190-194: the frames left open are reported and issues returned
LintFileReturn ==
    /\ pc = "scan"
    /\ i = Len(lines)
    /\ issues' = issues \o UnclosedIssues(fileNo, brace_stack)
    /\ pc' = "returned"
    /\ UNCHANGED << suite, nfiles, fileNo, lines, i, brace_stack, inside_object,
                    inside_multiline_structure, multiline_structure_type, total_issues,
                    printed, arg, ret >>

\* run_linter lines 210-212: every issue is printed and counted
PrintIssues ==
    /\ pc = "returned"
    /\ total_issues' = total_issues + Len(issues)
    /\ printed' = Append(printed, [file |-> fileNo, lines |-> lines, issues |-> issues])
    /\ pc' = "files"
    /\ UNCHANGED << suite, nfiles, fileNo, lines, i, issues, brace_stack, inside_object,
                    inside_multiline_structure, multiline_structure_type, arg, ret >>

\* run_linter lines 214-219
RunLinterExit ==
    /\ pc = "files"
    /\ fileNo = nfiles
    /\ pc' = IF total_issues = 0 THEN "exit0" ELSE "exit1"
    /\ UNCHANGED << suite, nfiles, fileNo, lines, i, issues, brace_stack, inside_object,
                    inside_multiline_structure, multiline_structure_type, total_issues,
                    printed, arg, ret >>

\* a direct call is_quotes_balanced(arg)
CallQuotes ==
    /\ pc = "call"
    /\ ret' = IF is_quotes_balanced(arg) THEN "True" ELSE "False"
    /\ pc' = "called"
    /\ UNCHANGED << suite, nfiles, fileNo, lines, i, issues, brace_stack, inside_object,
                    inside_multiline_structure, multiline_structure_type, total_issues,
                    printed, arg >>

Next ==
    \/ RunLinterStart
    \/ LintFileOpen
    \/ ScanLine
    \/ LintFileReturn
    \/ PrintIssues
    \/ RunLinterExit

NextQuotes == CallQuotes

SpecBrackets == InitBrackets /\ [][Next]_vars
SpecHeader   == InitHeader /\ [][Next]_vars
SpecBody     == InitBody /\ [][Next]_vars
SpecComment  == InitComment /\ [][Next]_vars
SpecRun      == InitRun /\ [][Next]_vars
SpecKeyword  == InitKeyword /\ [][Next]_vars
SpecLiteral  == InitLiteral /\ [][Next]_vars
SpecApply    == InitApply /\ [][Next]_vars
SpecRerun    == InitRerun /\ [][Next]_vars
SpecQuotes   == InitQuotes /\ [][NextQuotes]_vars

\* every input family at once
Init ==
    \/ InitBrackets
    \/ InitHeader
    \/ InitBody
    \/ InitComment
    \/ InitRun
    \/ InitKeyword
    \/ InitLiteral
    \/ InitApply
    \/ InitRerun
    \/ InitQuotes

Spec == Init /\ [][Next \/ NextQuotes]_vars

----------------------------------------------------------------------------
(* Vocabulary of the properties.                                           *)

\* lint_file lines 62-188 run over the first k lines of ls, the parser succeeding
\* (the parser's outcome changes no flag and no frame)
RECURSIVE ScanPrefix(_, _, _)
ScanPrefix(path, ls, k) ==
    IF k = 0 THEN ScanInit
    ELSE ScanStep(ScanPrefix(path, ls, k - 1), path, k, ls[k], FALSE)

Returned == pc = "returned"

IssuesAt(k) == {n \in 1..Len(issues) : issues[n].line = k}

IssuesOf(k, msgs) == {n \in 1..Len(issues) : issues[n].line = k /\ issues[n].msg \in msgs}

BracketMessages ==
    {M_MismatchSquare, M_MismatchCurly, M_UnclosedArray, M_UnclosedDict, M_UnclosedBracket}

\* every message lint_file can format
CodeMessages ==
    {M_InvalidType, M_ApplyTarget, M_HeaderQuotes, M_DidYouMean, M_NotKeyword,
     M_MismatchSquare, M_MismatchCurly, M_UnclosedArray, M_UnclosedDict, M_StructQuotes,
     M_ImportOperator, M_NoValue, M_InvalidAttr, M_ParseFailed, M_Quotes,
     M_UnclosedBracket}

Openers == {"{", "[", "("}
Closers == {"}", "]", ")"}
CloserOf(c) == CASE c = "{" -> "}" [] c = "[" -> "]" [] c = "(" -> ")"

HasAny(s, chars) == \E k \in 1..Len(s) : s[k] \in chars

\* line k of ls is top-level and starts with a keyword: a declaration header
TopLevelHeader(ls, k) == IsKeywordLine(ScanPrefix(0, ls, k - 1), Strip(ls[k]))

----------------------------------------------------------------------------
(* C1.  A file whose brackets are well formed, read character by character *)
(* over its non-comment lines, gets no bracket diagnostic and the stack is *)
(* empty after the last line.                                              *)

RECURSIVE Concat(_)
Concat(ls) == IF ls = << >> THEN << >> ELSE Head(ls) \o Concat(Tail(ls))

\* the text the tracker is meant to consume: the lines that are not blank or comments
TrackedText(ls) == Concat([k \in 1..Len(ls) |-> IF IsSkipped(Strip(ls[k])) THEN << >> ELSE ls[k]])

\* left-to-right matching of the bracket characters of s against a stack of openers
RECURSIVE Matches(_, _, _)
Matches(s, k, open) ==
    IF k > Len(s) THEN open = << >>
    ELSE IF s[k] \in Openers THEN Matches(s, k + 1, Append(open, s[k]))
    ELSE IF s[k] \in Closers
    THEN /\ open # << >>
         /\ CloserOf(open[Len(open)]) = s[k]
         /\ Matches(s, k + 1, SubSeq(open, 1, Len(open) - 1))
    ELSE Matches(s, k + 1, open)

WellFormed(ls) == Matches(TrackedText(ls), 1, << >>)

C1_WellFormedNoBracketDiagnostic ==
    (Returned /\ WellFormed(lines)) =>
        /\ \A n \in 1..Len(issues) : issues[n].msg \notin BracketMessages
        /\ brace_stack = << >>

----------------------------------------------------------------------------
(* C2.  A declaration with a valid header, attribute assignments as body   *)
(* and a closing brace line yields no diagnostic and ends at top level,    *)
(* the parser not raising.                                                 *)

NoBrackets(s) == ~HasAny(s, Openers \cup Closers)

\* a recognized keyword, a valid type, balanced quotes and one opening brace
ValidHeader(line) ==
    LET stripped == Strip(line)
        tokens   == Split(stripped)
    IN  /\ Len(tokens) > 1
        /\ tokens[1] \in KEYWORDS
        /\ StripQuotes(tokens[2]) \in VALID_OBJECT_TYPES
        /\ is_quotes_balanced(stripped)
        /\ Count(stripped, "{") = 1
        /\ ~HasAny(stripped, (Openers \cup Closers) \ {"{"})

\* name <op> value, quotes balanced, no brackets
Assignment(line) ==
    LET stripped == Strip(line)
        tokens   == Split(stripped)
    IN  /\ Len(tokens) >= 3
        /\ \A k \in 1..Len(tokens[1]) : tokens[1][k] \in IdentChar \cup {"."}
        /\ IsOperator(tokens[2])
        /\ is_quotes_balanced(stripped)
        /\ NoBrackets(stripped)

DeclarationFile(ls) ==
    /\ Len(ls) >= 2
    /\ ValidHeader(ls[1])
    /\ \A k \in 2..(Len(ls) - 1) : Assignment(ls[k])
    /\ Strip(ls[Len(ls)]) = <<"}">>

ParserRaised == \E n \in 1..Len(issues) : issues[n].msg = M_ParseFailed

AtTopLevel == ~inside_object /\ ~inside_multiline_structure /\ brace_stack = << >>

\* the claim as stated
C2_DeclarationClean ==
    (Returned /\ DeclarationFile(lines) /\ ~ParserRaised) => (issues = << >> /\ AtTopLevel)

\* the header of an apply rule for Dependency or Notification names its target
TargetGiven(line) ==
    LET stripped == Strip(line)
        tokens   == Split(stripped)
    IN  (tokens[1] = W_apply /\ StripQuotes(tokens[2]) \in {W_Dependency, W_Notification})
            => (Contains(stripped, W_toHost) \/ Contains(stripped, W_toService))

NotImport(line) == Split(Strip(line))[1] # W_import

\* C2 as amended: the same, for headers that satisfy the apply-target rule and
\* bodies whose attribute names are not the keyword import
C2_DeclarationCleanAmended ==
    ( /\ Returned
      /\ DeclarationFile(lines)
      /\ TargetGiven(lines[1])
      /\ \A k \in 2..(Len(lines) - 1) : NotImport(lines[k])
      /\ ~ParserRaised )
    => (issues = << >> /\ AtTopLevel)

C2_Witness ==
    /\ Returned
    /\ DeclarationFile(lines)
    /\ Len(lines) = 3
    /\ Split(lines[1])[1] = W_apply
    /\ TargetGiven(lines[1])
    /\ NotImport(lines[2])
    /\ ~ParserRaised
    /\ issues = << >>

----------------------------------------------------------------------------
(* C3.  At end of file every frame left on the stack yields exactly one    *)
(* unclosed-bracket ERROR with the frame's opening line; these are the     *)
(* last issues of the file, in non-decreasing order of opening line.       *)

C3_UnclosedAtEof ==
    Returned =>
        LET n == Len(brace_stack)
            m == Len(issues)
        IN  /\ m >= n
            /\ \A k \in 1..n :
                  issues[m - n + k] =
                      Issue(fileNo, brace_stack[k].line, "ERROR", M_UnclosedBracket,
                            << brace_stack[k].ch >>)
            /\ \A k \in 1..(m - n) : issues[k].msg # M_UnclosedBracket
            /\ \A k \in (m - n + 1)..(m - 1) : issues[k].line <= issues[k + 1].line

C3_Witness ==
    /\ Returned
    /\ Len(brace_stack) = 2
    /\ brace_stack[1].line < brace_stack[2].line
    /\ Len(issues) > 2
    /\ issues[Len(issues)].msg = M_UnclosedBracket

----------------------------------------------------------------------------
(* C4.  A top-level keyword line without "{" whose next non-comment line   *)
(* has no "{" either yields exactly one ERROR at the keyword line for the  *)
(* missing brace; when the next non-comment line has a "{" the missing     *)
(* brace yields no diagnostic.                                             *)

\* the diagnostics lint_file emits because a keyword line holds no "{"
MissingBraceMessages == {M_DidYouMean, M_NotKeyword}

\* the next line after k that is not blank or a comment, 0 when there is none
NextEvaluated(ls, k) ==
    LET later == {m \in (k + 1)..Len(ls) : ~IsSkipped(Strip(ls[m]))}
    IN  IF later = {} THEN 0 ELSE CHOOSE m \in later : \A x \in later : m <= x

C4_MissingBrace ==
    Returned =>
        \A k \in 1..Len(lines) :
            (TopLevelHeader(lines, k) /\ ~Contains(lines[k], <<"{">>)
                /\ NextEvaluated(lines, k) # 0) =>
            LET found == IssuesOf(k, MissingBraceMessages)
            IN  IF Contains(lines[NextEvaluated(lines, k)], <<"{">>)
                THEN found = {}
                ELSE /\ Cardinality(found) = 1
                     /\ \A n \in found : issues[n].sev = "ERROR"

----------------------------------------------------------------------------
(* C5.  A top-level keyword line gets exactly one invalid-type ERROR when  *)
(* its second token, quotes stripped, is no valid object type, and none    *)
(* when it is; the file `object <Unknown> "a" {` / `}` gets that ERROR and *)
(* nothing else.                                                           *)

DeclaredType(line) == StripQuotes(Split(Strip(line))[2])

UnknownTypeFile(ls) ==
    /\ Len(ls) = 2
    /\ Len(Split(ls[1])) > 1
    /\ Split(ls[1])[1] = W_object
    /\ DeclaredType(ls[1]) \notin VALID_OBJECT_TYPES
    /\ is_quotes_balanced(Strip(ls[1]))
    /\ Count(ls[1], "{") = 1
    /\ ~HasAny(ls[1], (Openers \cup Closers) \ {"{"})
    /\ Strip(ls[2]) = <<"}">>

C5_InvalidType ==
    Returned =>
        /\ \A k \in 1..Len(lines) :
              (TopLevelHeader(lines, k) /\ Len(Split(lines[k])) > 1) =>
                  IF DeclaredType(lines[k]) \in VALID_OBJECT_TYPES
                  THEN IssuesOf(k, {M_InvalidType}) = {}
                  ELSE /\ Cardinality(IssuesOf(k, {M_InvalidType})) = 1
                       /\ \A n \in IssuesOf(k, {M_InvalidType}) : issues[n].sev = "ERROR"
        /\ UnknownTypeFile(lines) =>
              issues = << Issue(fileNo, 1, "ERROR", M_InvalidType, DeclaredType(lines[1])) >>

C5_Witness ==
    /\ Returned
    /\ UnknownTypeFile(lines)
    /\ Len(issues) = 1
    /\ issues[1].msg = M_InvalidType

----------------------------------------------------------------------------
(* C6.  A declaration whose (type, name) pair was declared before, in the  *)
(* same or an earlier file of the run, gets exactly one ERROR at its own   *)
(* location that refers to the first declaration.                          *)

Finished == pc \in {"exit0", "exit1"} /\ fileNo = nfiles /\ Len(printed) = nfiles

\* the declarations of the run: <<file, line>> of every top-level keyword line
\* that carries a type and a name
Declarations ==
    { d \in UNION { {<<f, k>> : k \in 1..Len(printed[f].lines)} : f \in 1..Len(printed) } :
        /\ TopLevelHeader(printed[d[1]].lines, d[2])
        /\ Len(Split(printed[d[1]].lines[d[2]])) >= 3 }

DeclaredPair(d) ==
    LET tokens == Split(Strip(printed[d[1]].lines[d[2]]))
    IN  << StripQuotes(tokens[2]), StripQuotes(tokens[3]) >>

Earlier(d, e) == d[1] < e[1] \/ (d[1] = e[1] /\ d[2] < e[2])

\* the issues of file d[1] at line d[2] that none of lint_file's own checks
\* formats: the only place a duplicate-name ERROR could be
DuplicateIssues(d) ==
    { n \in 1..Len(printed[d[1]].issues) :
        /\ printed[d[1]].issues[n].line = d[2]
        /\ printed[d[1]].issues[n].sev = "ERROR"
        /\ printed[d[1]].issues[n].msg \notin CodeMessages }

C6_DuplicateNames ==
    Finished =>
        \A e \in Declarations :
            (\E d \in Declarations : Earlier(d, e) /\ DeclaredPair(d) = DeclaredPair(e))
                => Cardinality(DuplicateIssues(e)) = 1

----------------------------------------------------------------------------
(* C7.  The lines after a block-comment opener, up to and including the    *)
(* line with the closer, emit nothing and leave the stack and the flags    *)
(* unchanged.                                                              *)

BlockOpen == <<"/", "*">>
BlockClose == <<"*", "/">>

\* the comment mode after line k: inside a block comment or not
RECURSIVE InBlockAfter(_, _)
InBlockAfter(ls, k) ==
    IF k = 0 THEN FALSE
    ELSE IF InBlockAfter(ls, k - 1) THEN ~Contains(ls[k], BlockClose)
    ELSE StartsWith(Strip(ls[k]), BlockOpen) /\ ~Contains(ls[k], BlockClose)

Frameless(st) == [brace_stack |-> st.brace_stack, inside_object |-> st.inside_object,
                  ims |-> st.ims, mst |-> st.mst]

C7_BlockCommentSkipped ==
    Returned =>
        \A k \in 1..Len(lines) :
            InBlockAfter(lines, k - 1) =>
                /\ IssuesAt(k) = {}
                /\ Frameless(ScanPrefix(fileNo, lines, k))
                      = Frameless(ScanPrefix(fileNo, lines, k - 1))

----------------------------------------------------------------------------
(* C8.  A "}" or "]" processed while the stack is empty produces an ERROR  *)
(* on its line and leaves the stack empty.                                 *)

\* line k reaches the bracket tracker, the stack is empty before it, and the line
\* holds closers and no opener: each of its closers meets an empty stack
ClosersOnEmptyStack(ls, k) ==
    LET before   == ScanPrefix(0, ls, k - 1)
        stripped == Strip(ls[k])
    IN  /\ before.brace_stack = << >>
        /\ ~IsSkipped(stripped)
        /\ ~IsKeywordLine(before, stripped)
        /\ HasAny(stripped, {"}", "]"})
        /\ ~HasAny(stripped, {"{", "["})

C8_CloserOnEmptyStack ==
    Returned =>
        \A k \in 1..Len(lines) :
            ClosersOnEmptyStack(lines, k) =>
                /\ \E n \in IssuesAt(k) : issues[n].sev = "ERROR"
                /\ ScanPrefix(fileNo, lines, k).brace_stack = << >>

----------------------------------------------------------------------------
(* C9.  An opening "(" is pushed like "{" and "[": left unclosed, it is    *)
(* reported at end of file as an unclosed bracket at its opening line.     *)

\* line k reaches the bracket tracker and opens a "(" that no line closes
UnclosedParen(ls, k) ==
    /\ ~IsSkipped(Strip(ls[k]))
    /\ ~TopLevelHeader(ls, k)
    /\ HasAny(ls[k], {"("})
    /\ \A m \in k..Len(ls) : ~HasAny(ls[m], {")"})

C9_ParenTracked ==
    Returned =>
        \A k \in 1..Len(lines) :
            UnclosedParen(lines, k) =>
                \E n \in 1..Len(issues) :
                    issues[n] = Issue(fileNo, k, "ERROR", M_UnclosedBracket, <<"(">>)

----------------------------------------------------------------------------
(* C10.  is_quotes_balanced is true when every quote run is closed by an   *)
(* unescaped quote of its own kind, and false on an odd count of unescaped *)
(* quotes of one kind.                                                     *)

\* the character at k is escaped: an odd run of backslashes ends right before it
RECURSIVE Escaped(_, _)
Escaped(line, k) == k > 1 /\ line[k - 1] = BS /\ ~Escaped(line, k - 1)

UnescapedQuotes(line, q) == {k \in 1..Len(line) : line[k] = q /\ ~Escaped(line, k)}

\* the first index in set S that is at least p, 0 when there is none
FirstFrom(S, p) ==
    IF {k \in S : k >= p} = {} THEN 0
    ELSE CHOOSE k \in S : k >= p /\ \A m \in S : m >= p => k <= m

\* from position p, outside any run: the next unescaped quote opens a run, which
\* the next unescaped quote of the same kind closes
RECURSIVE RunsClosed(_, _)
RunsClosed(line, p) ==
    LET open == FirstFrom(UnescapedQuotes(line, DQ) \cup UnescapedQuotes(line, SQ), p)
        shut == FirstFrom(UnescapedQuotes(line, line[open]), open + 1)
    IN  IF open = 0 THEN TRUE
        ELSE IF shut = 0 THEN FALSE
        ELSE RunsClosed(line, shut + 1)

Odd(n) == n % 2 = 1

OddOfOneKind(line) ==
    \/ Odd(Cardinality(UnescapedQuotes(line, DQ)))
    \/ Odd(Cardinality(UnescapedQuotes(line, SQ)))

Called == pc = "called"

\* the claim as stated
C10_QuotesBalanced ==
    Called =>
        /\ RunsClosed(arg, 1) => ret = "True"
        /\ OddOfOneKind(arg) => ret = "False"

\* an odd count of one kind on a line that holds no unescaped quote of the other kind
OddOfOnlyKind(line) ==
    \/ Odd(Cardinality(UnescapedQuotes(line, DQ))) /\ UnescapedQuotes(line, SQ) = {}
    \/ Odd(Cardinality(UnescapedQuotes(line, SQ))) /\ UnescapedQuotes(line, DQ) = {}

\* C10 as amended: true exactly when every run is closed; an odd count of one kind
\* gives false when no quote of the other kind is on the line
C10_QuotesBalancedAmended ==
    Called =>
        /\ RunsClosed(arg, 1) => ret = "True"
        /\ ~RunsClosed(arg, 1) => ret = "False"
        /\ OddOfOnlyKind(arg) => ret = "False"

C10_Witness ==
    /\ Called
    /\ arg = << DQ, BS, DQ, DQ >>
    /\ ret = "True"


----------------------------------------------------------------------------
(* C11.  A file that cannot be opened or read does not end the run: the    *)
(* run goes on with the files that remain, and the failure is kept apart   *)
(* from the lint diagnostics.                                              *)

\* the exception of open() has left run_linter: no statement of the run follows
Aborted == pc = "raised"

\* the claim as stated: after a file failed to open the run can still take a step,
\* so that the remaining files are scanned and the run reaches its exit
C11_OpenFailureDoesNotAbort == Aborted => ENABLED Next

----------------------------------------------------------------------------
(* C12.  At top level a line whose first token is not a keyword gets a     *)
(* keyword diagnostic on that line: a WARN 'Did you mean' when the token   *)
(* is within the similarity cutoff of a keyword, an ERROR 'is not a valid  *)
(* keyword' otherwise; a line whose first token is a keyword never gets a  *)
(* 'not a valid keyword' diagnostic.                                       *)

\* line k of ls is scanned (neither blank nor a "//" comment) with the scanner at
\* top level
ScannedAtTopLevel(ls, k) ==
    LET before == ScanPrefix(0, ls, k - 1)
    IN  /\ ~IsSkipped(Strip(ls[k]))
        /\ ~before.inside_object
        /\ ~before.ims
        /\ before.brace_stack = << >>

FirstToken(line) == Split(Strip(line))[1]

KeywordMessages == {M_DidYouMean, M_NotKeyword}

HasIssue(k, sev, msg) ==
    \E n \in 1..Len(issues) :
        issues[n].line = k /\ issues[n].sev = sev /\ issues[n].msg = msg

\* the claim as stated
C12_KeywordDiagnostic ==
    Returned =>
        \A k \in 1..Len(lines) :
            ScannedAtTopLevel(lines, k) =>
                IF FirstToken(lines[k]) \in KEYWORDS
                THEN IssuesOf(k, KeywordMessages) = {}
                ELSE IF suggest_correction(FirstToken(lines[k]), KEYWORDS) # << >>
                     THEN HasIssue(k, "WARN", M_DidYouMean)
                     ELSE HasIssue(k, "ERROR", M_NotKeyword)

----------------------------------------------------------------------------
(* C13.  Every scanned line that is processed inside an object body or a   *)
(* nested literal and whose quotes are unbalanced gets at least one        *)
(* unbalanced-quotes ERROR on that line, whatever else the line produces.  *)

QuoteMessages == {M_HeaderQuotes, M_StructQuotes, M_Quotes}

\* line k of ls is scanned with the scanner inside an object or a literal
ScannedInside(ls, k) ==
    LET before == ScanPrefix(0, ls, k - 1)
    IN  /\ ~IsSkipped(Strip(ls[k]))
        /\ before.inside_object \/ before.ims

\* the claim as stated
C13_UnbalancedQuotesReported ==
    Returned =>
        \A k \in 1..Len(lines) :
            (ScannedInside(lines, k) /\ ~is_quotes_balanced(Strip(lines[k])))
                => \E n \in IssuesOf(k, QuoteMessages) : issues[n].sev = "ERROR"

----------------------------------------------------------------------------
(* C14.  Every scanned line of an object body that has no assignment       *)
(* operator, does not start with import, assign or ignore, and has no      *)
(* literal-continuation shape gets an 'invalid attribute syntax' ERROR,    *)
(* also after a nested literal of the same object has been closed.         *)

\* trailing ",", "]" or "}", or a leading double quote
LiteralContinuation(stripped) ==
    \/ EndsWith(stripped, <<",">>)
    \/ EndsWith(stripped, <<"]">>)
    \/ EndsWith(stripped, <<"}">>)
    \/ StartsWith(stripped, <<DQ>>)

\* line k of ls is scanned inside the body of an object: a header opened the
\* object before it and the object's brace is still open after it
InObjectBody(ls, k) ==
    /\ ~IsSkipped(Strip(ls[k]))
    /\ ScanPrefix(0, ls, k - 1).inside_object
    /\ ScanPrefix(0, ls, k).inside_object

PlainWord(stripped) ==
    /\ ~HasOperator(stripped)
    /\ Split(stripped)[1] \notin SPECIAL_KEYWORDS
    /\ ~LiteralContinuation(stripped)

\* the claim as stated
C14_InvalidAttributeSyntax ==
    Returned =>
        \A k \in 1..Len(lines) :
            (InObjectBody(lines, k) /\ PlainWord(Strip(lines[k])))
                => HasIssue(k, "ERROR", M_InvalidAttr)

----------------------------------------------------------------------------
(* C18.  Inside an object body a line that opens a "[" or a "{" pushes a   *)
(* frame for it and marks the scanner as inside a literal: the flag        *)
(* inside_multiline_structure is true with type array for "[", dict for    *)
(* "{".                                                                    *)

\* the line just scanned, and the scan state before it
Scanning == pc = "scan" /\ i > 0

LastLine == Strip(lines[i])

BeforeLast == ScanPrefix(fileNo, lines, i - 1)

\* the line's only brackets are openers ch
OpensOnly(stripped, ch) ==
    /\ Count(stripped, ch) > 0
    /\ \A other \in (Openers \cup Closers) \ {ch} : Count(stripped, other) = 0

LiteralType(ch) == IF ch = "[" THEN "array" ELSE "dict"

\* the claim as stated
C18_LiteralMarked ==
    \A ch \in {"[", "{"} :
        (Scanning /\ ~IsSkipped(LastLine) /\ BeforeLast.inside_object /\ OpensOnly(LastLine, ch))
            => /\ brace_stack = PushN(BeforeLast.brace_stack, ch, i, Count(LastLine, ch))
               /\ inside_multiline_structure
               /\ multiline_structure_type = LiteralType(ch)

----------------------------------------------------------------------------
(* C20.  An 'unclosed array structure' or 'unclosed dictionary structure'  *)
(* ERROR is given to a line only if a frame is still open on brace_stack   *)
(* after that line's brackets were processed, and once a top-level literal *)
(* has closed the scanner is back at top level.                            *)

StructureMessages == {M_UnclosedArray, M_UnclosedDict}

\* the line just scanned was taken at top level and is not a header
TopLevelLiteralLine ==
    /\ Scanning
    /\ ~IsSkipped(LastLine)
    /\ ~BeforeLast.inside_object
    /\ ~BeforeLast.ims
    /\ BeforeLast.brace_stack = << >>
    /\ ~IsKeywordLine(BeforeLast, LastLine)

\* the claim as stated
C20_UnclosedStructure ==
    /\ (Scanning /\ IssuesOf(i, StructureMessages) # {}) => brace_stack # << >>
    /\ (TopLevelLiteralLine /\ brace_stack = << >>) => ~inside_multiline_structure

----------------------------------------------------------------------------
(* C15.  A top-level apply header whose type is Dependency or Notification *)
(* gets exactly one ERROR of the targeting rule when the line contains     *)
(* neither 'to Host' nor 'to Service', and none when it contains one of    *)
(* them; object and template headers, and apply headers of other types,    *)
(* never get it.                                                           *)

\* the header applies a Dependency or a Notification
NeedsTarget(line) ==
    /\ Len(Split(line)) > 1
    /\ Split(line)[1] = W_apply
    /\ DeclaredType(line) \in {W_Dependency, W_Notification}

NamesTarget(line) == Contains(line, W_toHost) \/ Contains(line, W_toService)

\* the claim as stated
C15_ApplyTarget ==
    Returned =>
        \A k \in 1..Len(lines) :
            IF TopLevelHeader(lines, k) /\ NeedsTarget(lines[k]) /\ ~NamesTarget(lines[k])
            THEN /\ Cardinality(IssuesOf(k, {M_ApplyTarget})) = 1
                 /\ \A n \in IssuesOf(k, {M_ApplyTarget}) : issues[n].sev = "ERROR"
            ELSE IssuesOf(k, {M_ApplyTarget}) = {}

\* an apply rule without target, closed, then the same rule with its target
C15_Witness ==
    /\ Returned
    /\ lines = << P_Dep, P_Close, P_DepToHost >>
    /\ Cardinality(IssuesOf(1, {M_ApplyTarget})) = 1
    /\ IssuesOf(3, {M_ApplyTarget}) = {}

----------------------------------------------------------------------------
(* C16.  A closing bracket processed while brace_stack is non-empty and    *)
(* its top frame is of another kind gets exactly one 'mismatched bracket'  *)
(* ERROR and leaves brace_stack unchanged; a frame is popped only by a     *)
(* closer of its own kind.                                                 *)

OpenerOf(c) == IF c = "]" THEN "[" ELSE "{"

MismatchOf(c) == IF c = "]" THEN M_MismatchSquare ELSE M_MismatchCurly

\* the number of frames of kind ch on the stack
RECURSIVE NumFrames(_, _)
NumFrames(stack, ch) ==
    IF stack = << >> THEN 0
    ELSE (IF Head(stack).ch = ch THEN 1 ELSE 0) + NumFrames(Tail(stack), ch)

\* the line just scanned went through the bracket tracking of lines 104-141
TrackedLine ==
    /\ Scanning
    /\ ~IsSkipped(LastLine)
    /\ ~IsKeywordLine(BeforeLast, LastLine)

\* the line's only brackets are closers c, met with a frame of another kind on top
MismatchedClosers(c) ==
    /\ Scanning
    /\ OpensOnly(LastLine, c)
    /\ TrackedLine
    /\ BeforeLast.brace_stack # << >>
    /\ Top(BeforeLast.brace_stack).ch # OpenerOf(c)

C16_MismatchKeepsStack ==
    /\ \A c \in {"]", "}"} :
          MismatchedClosers(c) =>
              /\ Cardinality(IssuesOf(i, {MismatchOf(c)})) = Count(LastLine, c)
              /\ \A n \in IssuesOf(i, {MismatchOf(c)}) : issues[n].sev = "ERROR"
              /\ brace_stack = BeforeLast.brace_stack
    /\ TrackedLine =>
          LET before == BeforeLast.brace_stack
          IN  \A o \in {"[", "{"} :
                  NumFrames(brace_stack, o) >=
                      NumFrames(before, o) + Count(LastLine, o) - Count(LastLine, CloserOf(o))

\* "x = [" followed by "}": one ERROR for the "}", the "[" frame stays
C16_Witness ==
    /\ MismatchedClosers("}")
    /\ lines[1] = B_OpenSquare
    /\ Cardinality(IssuesOf(i, {M_MismatchCurly})) = 1
    /\ brace_stack = << Frame("[", 1) >>

----------------------------------------------------------------------------
(* C19.  At every line boundary of lint_file: if inside_object is true,    *)
(* brace_stack is non-empty and its bottom frame is the "{" pushed by the  *)
(* object's header line; if inside_object and inside_multiline_structure   *)
(* are both false, brace_stack is empty.  The object state is left exactly *)
(* when the header's own brace is popped.                                  *)

\* between two iterations of the loop over the lines, before the first and
\* after the last
LineBoundary == pc \in {"scan", "returned"}

C19_ObjectFrame ==
    /\ (LineBoundary /\ inside_object) =>
          /\ brace_stack # << >>
          /\ brace_stack[1].ch = "{"
          /\ brace_stack[1].line \in 1..i
          /\ TopLevelHeader(lines, brace_stack[1].line)
    /\ (LineBoundary /\ ~inside_object /\ ~inside_multiline_structure) =>
          brace_stack = << >>
    /\ (Scanning /\ BeforeLast.inside_object) =>
          (inside_object <=> brace_stack # << >>)

\* the "}" after a header has popped the header's frame and ended the object
C19_Witness ==
    /\ Scanning
    /\ i = 2
    /\ lines[1] = B_Header
    /\ lines[2] = B_CloseCurly
    /\ BeforeLast.inside_object
    /\ ~inside_object
    /\ brace_stack = << >>

----------------------------------------------------------------------------
(* C17.  The diagnostics lint_file returns for a file depend only on the   *)
(* file's path and contents: files with the same contents get the same     *)
(* diagnostics wherever they stand in the run, and no scan state survives  *)
(* from one file's scan to the next.  The verdict of the attribute parser, *)
(* which lint_file calls and does not define, is left out of the           *)
(* comparison.                                                             *)

FromLinter(issue) == issue.msg # M_ParseFailed

\* the diagnostics of lint_file's own checks, without the path they start with
Diagnostics(found) ==
    LET own == SelectSeq(found, FromLinter)
    IN  [n \in 1..Len(own) |->
            [line |-> own[n].line, sev |-> own[n].sev, msg |-> own[n].msg, arg |-> own[n].arg]]

\* lint_file as a function of path and contents, started from a fresh scan state
LintOf(path, ls) ==
    LET st == ScanPrefix(path, ls, Len(ls))
    IN  st.issues \o UnclosedIssues(path, st.brace_stack)

\* checked each time run_linter has taken the diagnostics of one more file
C17_FileLocal ==
    pc = "files" =>
        /\ \A f \in 1..Len(printed) :
              /\ SelectSeq(printed[f].issues, FromLinter)
                    = LintOf(printed[f].file, printed[f].lines)
              /\ \A n \in 1..Len(printed[f].issues) :
                    printed[f].issues[n].file = printed[f].file
        /\ \A f, g \in 1..Len(printed) :
              printed[f].lines = printed[g].lines
                  => Diagnostics(printed[f].issues) = Diagnostics(printed[g].issues)

\* two files with the same contents, the first of which left a bracket open
C17_Witness ==
    /\ pc = "files"
    /\ Len(printed) = 2
    /\ printed[1].lines = << N_Header, N_Attr >>
    /\ printed[2].lines = << N_Header, N_Attr >>
    /\ Len(Diagnostics(printed[2].issues)) = 1
    /\ Diagnostics(printed[1].issues) = Diagnostics(printed[2].issues)
====
